---- MODULE Spec2Model ----
(***************************************************************************)
(* Publish/unpublish pipeline of the article CMS (src/main.py).            *)
(*                                                                         *)
(* State: the articles table, the remote FTP store (article files and      *)
(* sitemap.xml), the local working copy generated/sitemap.xml, the last    *)
(* notification the indexing API received per URL, the background-task    *)
(* runner of the request in flight, the context of a second request whose  *)
(* tasks run in another worker thread, and the FTP operation in progress.  *)
(*                                                                         *)
(* Specifications: Spec (requests one at a time, fresh deployment),        *)
(* SpecLive (the same, site in use), SpecPipe and SpecMap (the pipelines   *)
(* alone), SpecRace (the tasks of two requests interleaved), SpecFtp (one  *)
(* FTP operation statement by statement).                                  *)
(***************************************************************************)
EXTENDS Integers, Sequences, FiniteSets, TLC

(* ------------------------------ bounds -------------------------------- *)
MaxRequests == 2        \* committed requests in one behaviour of Spec
MaxFailures == 1        \* collaborator failures in one behaviour of Spec
MaxDay == 2             \* calendar days 1..MaxDay
PipeFailures == 4       \* collaborator failures in one behaviour of SpecPipe

Ids == {1, 2}
Slugs == {"a", "b"}
Days == 1..MaxDay

(* --------------------------- configuration ---------------------------- *)
SITE_URL == "https://frunza-asociatii.ro"
ARTICLES_URL_SUBDIR == "noutati"
NoDate == 0             \* a NULL published_at / a missing <lastmod>

\* f"{SITE_URL}/{ARTICLES_URL_SUBDIR}/{slug}"
PublicUrl(slug) == SITE_URL \o "/" \o ARTICLES_URL_SUBDIR \o "/" \o slug
\* f"{slug}.html"
FileName(slug) == slug \o ".html"

\* a page of the site that is no article
HomeUrl == SITE_URL \o "/"
Urls == {PublicUrl(s) : s \in Slugs} \cup {HomeUrl}

(* ------------------------- request payloads --------------------------- *)
\* a status that is not a string (JSON null, a number): it has no .lower()
NotAString == "null"
\* payload.get('status', ''): "" is a payload without the field
PayloadStatuses == {"Published", "draft", "", NotAString}
\* .lower() raises AttributeError, which leaves the handler: 500, no commit
Raises(p) == p = NotAString
\* str.lower() on these
Lower(s) == IF s = "Published" THEN "published" ELSE s
\* payload.get('slug', old_slug): "" is a payload without the field
PayloadSlugs == Slugs \cup {""}
NewStatus(p) == IF Lower(p) = "published" THEN "Published" ELSE "Draft"

(* ------------------------- sitemap documents -------------------------- *)
Absent == [kind |-> "absent"]             \* no such file
Unparseable == [kind |-> "unparseable"]   \* a file ET.parse rejects (empty, cut)
Doc(es) == [kind |-> "doc", urls |-> es]  \* <urlset> with its <url> children
Entry(u, d) == [loc |-> u, lastmod |-> d]

IsDoc(f) == f.kind = "doc"
HasUrl(f, u) == IsDoc(f) /\ \E i \in 1..Len(f.urls) : f.urls[i].loc = u
FirstIdx(es, u) == CHOOSE i \in 1..Len(es) :
                     /\ es[i].loc = u
                     /\ \A j \in 1..(i - 1) : es[j].loc # u

VARIABLES
  db,          \* articles table: id -> row, for the ids that have a row
  files,       \* names of the files in ARTICLES_UPLOAD_PATH_FTP
  sitemap,     \* sitemap.xml in SITEMAP_UPLOAD_PATH_FTP
  local,       \* generated/sitemap.xml, the local working copy
  indexed,     \* url -> last notification type the indexing API received
  creds,       \* GOOGLE_CLIENT_EMAIL is configured
  now,         \* datetime.utcnow(), as a calendar day
  tasks,       \* BackgroundTasks of the request in flight, in add_task order
  pc,          \* position of the running task
  trace,       \* calls made by the running task, each with its outcome
  ret,         \* what the running task returned
  done,        \* the tasks of this request that have returned
  req,         \* the last request and the response it got
  nreq,        \* requests committed so far
  nfail,       \* collaborator failures so far
  other,       \* the request whose tasks run in another worker thread
  ftp          \* the FTP operation in progress, step by step

vars == <<db, files, sitemap, local, indexed, creds, now,
          tasks, pc, trace, ret, done, req, nreq, nfail, other, ftp>>

ext == <<files, sitemap, local, indexed>>
run == <<tasks, pc, trace, ret, done>>
aux == <<other, ftp>>

NoReq == [kind |-> "none", id |-> 0, code |-> 0,
          old_status |-> "", new_status |-> "", old_slug |-> "", new_slug |-> ""]

Task(op, slug) == [op |-> op, slug |-> slug]

Quiescent == tasks = <<>> /\ pc = "idle"

\* a request context with nothing to run
IdleCtx == [tasks |-> <<>>, pc |-> "idle", trace |-> <<>>, ret |-> "none", done |-> <<>>]
\* no FTP operation entered
NoFtp == [op |-> "none", name |-> "", at |-> "idle", bound |-> FALSE,
          open |-> 0, opened |-> 0, result |-> "none",
          made |-> "none", sent |-> "none"]

(* ============================ CRUD layer ============================== *)
\* SlugHeld when the uniqueness query is left out
SlugHeld_Never(slug) == FALSE

\* db.query(ArticleDB).filter(ArticleDB.slug == slug).first()
SlugHeld(slug) == \E i \in DOMAIN db : db[i].slug = slug
\* the primary key the insert gets (a slug is free only while an id is)
FreeId == CHOOSE i \in Ids \ DOMAIN db : \A j \in Ids \ DOMAIN db : i <= j

\* db.commit() may raise; the exception leaves the handler before any add_task
CommitOutcomes == IF nfail < MaxFailures THEN BOOLEAN ELSE {TRUE}

Response(kind, id, code, os, ns, osl, nsl) ==
  [kind |-> kind, id |-> id, code |-> code,
   old_status |-> os, new_status |-> ns, old_slug |-> osl, new_slug |-> nsl]

\* a request that is answered without a commit: nothing changes, nothing scheduled
Refused(r, failed) ==
  /\ req' = r
  /\ nreq' = nreq
  /\ nfail' = IF failed THEN nfail + 1 ELSE nfail
  /\ tasks' = <<>>
  /\ UNCHANGED db

\* add_task before the commit has written the row
Committed_NoWrite(r, newdb, ts) ==
  /\ req' = r
  /\ nreq' = nreq + 1
  /\ db' = db
  /\ tasks' = ts
  /\ UNCHANGED nfail

\* a request whose commit went through, and the tasks it handed to add_task
Committed(r, newdb, ts) ==
  /\ req' = r
  /\ nreq' = nreq + 1
  /\ db' = newdb
  /\ tasks' = ts
  /\ UNCHANGED nfail

\* every handler starts from a finished runner (one request at a time)
Arrive ==
  /\ Quiescent
  /\ nreq < MaxRequests
  /\ done' = <<>>
  /\ UNCHANGED <<pc, trace, ret, ext, creds, now, aux>>

\* "if not article: raise HTTPException(status_code=404)" of update_article,
\* patch_status and delete_article
not_found(kind, id) ==
  /\ Arrive
  /\ id \notin DOMAIN db
  /\ Refused(Response(kind, 0, 404, "", "", "", ""), FALSE)

\* create_article, the tasks added at lines 568-569
CreateTasks(status, slug) ==
  IF status = "Published" THEN <<Task("publish", slug)>> ELSE <<>>

create_article(slug, p, commit_ok) ==
  LET status == NewStatus(p)
      id == FreeId
      row == [slug |-> slug, status |-> status, url |-> PublicUrl(slug),
              published_at |-> IF status = "Published" THEN now ELSE NoDate]
  IN /\ Arrive
     /\ IF SlugHeld(slug)
          THEN Refused(Response("create", 0, 400, "", "", "", slug), FALSE)
        ELSE IF Raises(p)
          THEN Refused(Response("create", 0, 500, "", "", "", slug), FALSE)
        ELSE IF ~commit_ok
          THEN Refused(Response("create", 0, 500, "", status, "", slug), TRUE)
        ELSE Committed(Response("create", id, 200, "", status, "", slug),
                       [i \in DOMAIN db \cup {id} |-> IF i = id THEN row ELSE db[i]],
                       CreateTasks(status, slug))

\* variants of UpdateTasks with one branch written wrongly
UpdateTasks_NoUnpublish(old_status, new_status, old_slug, new_slug) ==
  IF old_status = "Published" /\ new_status = "Draft"
    THEN <<Task("unpublish", old_slug)>>
  ELSE IF new_status = "Published"
    THEN <<Task("publish", new_slug)>>
  ELSE <<>>

UpdateTasks_NewSlug(old_status, new_status, old_slug, new_slug) ==
  IF old_status = "Published" /\ new_status = "Draft"
    THEN <<Task("unpublish", new_slug)>>
  ELSE IF old_status = "Published" /\ new_status = "Published" /\ old_slug # new_slug
    THEN <<Task("unpublish", old_slug), Task("publish", new_slug)>>
  ELSE IF new_status = "Published"
    THEN <<Task("publish", new_slug)>>
  ELSE <<>>

UpdateTasks_Swapped(old_status, new_status, old_slug, new_slug) ==
  IF old_status = "Published" /\ new_status = "Draft"
    THEN <<Task("unpublish", old_slug)>>
  ELSE IF old_status = "Published" /\ new_status = "Published" /\ old_slug # new_slug
    THEN <<Task("publish", new_slug), Task("unpublish", old_slug)>>
  ELSE IF new_status = "Published"
    THEN <<Task("publish", new_slug)>>
  ELSE <<>>

\* update_article, the tasks added at lines 674-685
UpdateTasks(old_status, new_status, old_slug, new_slug) ==
  IF old_status = "Published" /\ new_status = "Draft"
    THEN <<Task("unpublish", old_slug)>>
  ELSE IF old_status = "Published" /\ new_status = "Published" /\ old_slug # new_slug
    THEN <<Task("unpublish", old_slug), Task("publish", new_slug)>>
  ELSE IF new_status = "Published"
    THEN <<Task("publish", new_slug)>>
  ELSE <<>>

\* update_article without line 665, the assignment of article.url
update_article_StaleUrl(id, pslug, p, commit_ok) ==
  /\ Arrive
  /\ id \in DOMAIN db
  /\ LET old_slug == db[id].slug
           old_status == db[id].status
           new_status == NewStatus(p)
           new_slug == IF pslug # "" THEN pslug ELSE old_slug
           r(code) == Response("update", id, code, old_status, new_status,
                               old_slug, new_slug)
           row == [slug |-> new_slug, status |-> new_status,
                   url |-> db[id].url,
                   published_at |->
                     IF new_status = "Published" /\ db[id].published_at = NoDate
                       THEN now ELSE db[id].published_at]
       IN IF Raises(p)
            THEN Refused(Response("update", id, 500, old_status, "", old_slug, ""),
                         FALSE)
          ELSE IF new_slug # old_slug /\ SlugHeld(new_slug)
            THEN Refused(r(400), FALSE)
          ELSE IF ~commit_ok
            THEN Refused(r(500), TRUE)
          ELSE Committed(r(200), [db EXCEPT ![id] = row],
                         UpdateTasks(old_status, new_status, old_slug, new_slug))

update_article(id, pslug, p, commit_ok) ==
  /\ Arrive
  /\ id \in DOMAIN db
  /\ LET old_slug == db[id].slug
           old_status == db[id].status
           new_status == NewStatus(p)
           new_slug == IF pslug # "" THEN pslug ELSE old_slug
           r(code) == Response("update", id, code, old_status, new_status,
                               old_slug, new_slug)
           row == [slug |-> new_slug, status |-> new_status,
                   url |-> PublicUrl(new_slug),
                   published_at |->
                     IF new_status = "Published" /\ db[id].published_at = NoDate
                       THEN now ELSE db[id].published_at]
       IN IF Raises(p)
            THEN Refused(Response("update", id, 500, old_status, "", old_slug, ""),
                         FALSE)
          ELSE IF new_slug # old_slug /\ SlugHeld(new_slug)
            THEN Refused(r(400), FALSE)
          ELSE IF ~commit_ok
            THEN Refused(r(500), TRUE)
          ELSE Committed(r(200), [db EXCEPT ![id] = row],
                         UpdateTasks(old_status, new_status, old_slug, new_slug))

\* PatchTasks with "else" for "elif new_status == 'Published'"
PatchTasks_Else(old_status, new_status, slug) ==
  IF old_status = "Published" /\ new_status = "Draft"
    THEN <<Task("unpublish", slug)>>
  ELSE <<Task("publish", slug)>>

\* patch_status, the tasks added at lines 713-718 (slug is article.slug)
PatchTasks(old_status, new_status, slug) ==
  IF old_status = "Published" /\ new_status = "Draft"
    THEN <<Task("unpublish", slug)>>
  ELSE IF new_status = "Published"
    THEN <<Task("publish", slug)>>
  ELSE <<>>

\* patch_status without "and not article.published_at" at line 706
patch_status_Restamp(id, p, commit_ok) ==
  /\ Arrive
  /\ id \in DOMAIN db
  /\ LET old_status == db[id].status
           new_status == NewStatus(p)
           slug == db[id].slug
           r(code) == Response("patch", id, code, old_status, new_status, slug, slug)
           row == [db[id] EXCEPT
                     !.status = new_status,
                     !.published_at =
                       IF new_status = "Published" THEN now ELSE db[id].published_at]
       IN IF Raises(p)
            THEN Refused(Response("patch", id, 500, old_status, "", slug, slug),
                         FALSE)
          ELSE IF ~commit_ok
            THEN Refused(r(500), TRUE)
          ELSE Committed(r(200), [db EXCEPT ![id] = row],
                         PatchTasks(old_status, new_status, slug))

patch_status(id, p, commit_ok) ==
  /\ Arrive
  /\ id \in DOMAIN db
  /\ LET old_status == db[id].status
           new_status == NewStatus(p)
           slug == db[id].slug
           r(code) == Response("patch", id, code, old_status, new_status, slug, slug)
           row == [db[id] EXCEPT
                     !.status = new_status,
                     !.published_at =
                       IF new_status = "Published" /\ db[id].published_at = NoDate
                         THEN now ELSE db[id].published_at]
       IN IF Raises(p)
            THEN Refused(Response("patch", id, 500, old_status, "", slug, slug),
                         FALSE)
          ELSE IF ~commit_ok
            THEN Refused(r(500), TRUE)
          ELSE Committed(r(200), [db EXCEPT ![id] = row],
                         PatchTasks(old_status, new_status, slug))

\* DeleteTasks without the was_published test
DeleteTasks_Always(was_published, slug) == <<Task("unpublish", slug)>>

\* delete_article, the task added at lines 741-743
DeleteTasks(was_published, slug) ==
  IF was_published THEN <<Task("unpublish", slug)>> ELSE <<>>

delete_article(id, commit_ok) ==
  /\ Arrive
  /\ id \in DOMAIN db
  /\ LET slug == db[id].slug
           was_published == (db[id].status = "Published")
           r(code) == Response("delete", id, code, db[id].status, "", slug, "")
       IN IF ~commit_ok
            THEN Refused(r(500), TRUE)
          ELSE Committed(r(200), [i \in DOMAIN db \ {id} |-> db[i]],
                         DeleteTasks(was_published, slug))

(* ========================= collaborators ============================== *)
\* the outcomes a call may have while fewer than cap failures have happened
Outcomes(all, cap) == IF nfail < cap THEN all ELSE {"ok"}
Faults(o) == IF o = "ok" THEN 0 ELSE 1
Call(name, ok, o) == [call |-> name, ok |-> ok, fault |-> o # "ok"]
Clean(tr) == \A i \in 1..Len(tr) : ~tr[i].fault
Called(tr, name) == \E i \in 1..Len(tr) : tr[i].call = name
CallOk(tr, name) == \E i \in 1..Len(tr) : tr[i].call = name /\ tr[i].ok
Pos(tr, name) == CHOOSE i \in 1..Len(tr) : tr[i].call = name

\* upload_file_ftp: True only when connect, cwd/mkd and STOR all went through.
\* stor_fail: STOR refused, nothing written; stor_cut: the transfer broke and
\* the server keeps the cut file
UploadOutcomes == {"ok", "conn_fail", "mkd_fail", "stor_fail", "stor_cut"}
\* upload_file_ftp that returns True from its except clause too
upload_file_ftp_True(o) == TRUE

upload_file_ftp(o) == o = "ok"
\* Stored when the upload never replaces the remote file
Stored_Keep(old, new, o) == old

\* the remote file after STOR of content new over old
Stored(old, new, o) ==
  IF o = "ok" THEN new ELSE IF o = "stor_cut" THEN Unparseable ELSE old
\* the names in the remote directory after STOR name
StoredNames(fs, name, o) == IF o \in {"ok", "stor_cut"} THEN fs \cup {name} ELSE fs

\* Deleted with the DELE sent for a name that is not there
Deleted_Never(fs, name, o) == fs

\* delete_file_ftp: the file is gone when DELE ran; True on every path
DeleteOutcomes == {"ok", "conn_fail"}
delete_file_ftp(o) == TRUE
Deleted(fs, name, o) == IF o = "ok" THEN fs \ {name} ELSE fs

\* download_from_cpanel: open(local_path, 'wb') truncates the local copy
\* once the connection is up, before RETR is sent
DownloadOutcomes == {"ok", "conn_fail", "retr_fail"}
Downloaded(remote, loc, o) ==
  IF o = "conn_fail" THEN loc
  ELSE IF o = "retr_fail" \/ remote = Absent THEN Unparseable
  ELSE remote
download_from_cpanel(remote, o) == o = "ok" /\ remote # Absent

\* Upsert without the "if not found: append" branch
Upsert_NoAppend(loc, u, day) ==
  LET es == IF IsDoc(loc) THEN loc.urls ELSE <<>>
  IN IF \E i \in 1..Len(es) : es[i].loc = u
       THEN LET k == FirstIdx(es, u)
            IN Doc([es EXCEPT ![k].lastmod =
                      IF es[k].lastmod # NoDate THEN day ELSE NoDate])
     ELSE Doc(es)

\* Upsert without the "found" test: every call appends
Upsert_Dup(loc, u, day) ==
  LET es == IF IsDoc(loc) THEN loc.urls ELSE <<>>
  IN Doc(Append(es, Entry(u, day)))

\* update_sitemap, lines 307-333: the document built from the local copy
Upsert(loc, u, day) ==
  LET es == IF IsDoc(loc) THEN loc.urls ELSE <<>>
  IN IF \E i \in 1..Len(es) : es[i].loc = u
       THEN LET k == FirstIdx(es, u)
            IN Doc([es EXCEPT ![k].lastmod =
                      IF es[k].lastmod # NoDate THEN day ELSE NoDate])
     ELSE Doc(Append(es, Entry(u, day)))

\* Remove that stops at the first matching entry
Remove_First(es, u) ==
  IF \E i \in 1..Len(es) : es[i].loc = u
    THEN LET k == FirstIdx(es, u)
         IN SubSeq(es, 1, k - 1) \o SubSeq(es, k + 1, Len(es))
    ELSE es

\* remove_from_sitemap, lines 356-362
Remove(es, u) == SelectSeq(es, LAMBDA e : e.loc # u)

\* request_google_indexing: skipped without credentials, else sent or failed
NotifyOutcomes(cap) == IF creds THEN Outcomes({"ok", "fail"}, cap) ELSE {"skipped"}
request_google_indexing(o) == o = "ok"
\* Notified when the request is sent whatever the credentials and the outcome
Notified_Always(idx, u, type, o) == [idx EXCEPT ![u] = type]

Notified(idx, u, type, o) == IF o = "ok" THEN [idx EXCEPT ![u] = type] ELSE idx
NotifyFaults(o) == IF o = "fail" THEN 1 ELSE 0

(* ======================= background task runner ======================= *)
Running(op) == tasks # <<>> /\ Head(tasks).op = op
Starting(op) == pc = "idle" /\ Running(op)
slug_ == Head(tasks).slug
public_url == PublicUrl(slug_)
file_name == FileName(slug_)

\* publish_content_pipeline without its try/except
PublishExcept_Raise == "raised"

\* what the except clause of publish_content_pipeline turns an exception into
PublishExcept == "false"
\* publish_content_pipeline's return after the upload branch
PublishReturn(uploaded) == IF uploaded THEN "true" ELSE "false"
\* unpublish_content_pipeline's return after its three calls
UnpublishReturn == "true"

Step(next, tr, r, k) ==
  /\ pc' = next
  /\ trace' = tr
  /\ ret' = r
  /\ nfail' = nfail + k
  /\ UNCHANGED <<db, creds, now, tasks, done, req, nreq, aux>>

(* ---------------------- publish_content_pipeline ---------------------- *)
\* a publish that goes on to the upload after a failed render
p_render_Continue(cap) ==
  /\ Starting("publish")
  /\ \E o \in Outcomes({"ok", "raise"}, cap) :
       Step("p_upload", <<Call("render", o = "ok", o)>>, "none", Faults(o))
  /\ UNCHANGED ext

\* lines 384-406: render the template and write generated/{slug}.html
p_render(cap) ==
  /\ Starting("publish")
  /\ \E o \in Outcomes({"ok", "raise"}, cap) :
       IF o = "ok"
         THEN Step("p_upload", <<Call("render", TRUE, o)>>, "none", 0)
         ELSE Step("ret", <<Call("render", FALSE, o)>>, PublishExcept, 1)
  /\ UNCHANGED ext

\* AfterUpload that does not look at the result of the upload
AfterUpload_Always(uploaded) == "s_download"

\* line 408: "if upload_file_ftp(...)" decides whether the pipeline goes on
AfterUpload(uploaded) == IF uploaded THEN "s_download" ELSE "ret"

p_upload(cap) ==
  /\ pc = "p_upload"
  /\ \E o \in Outcomes(UploadOutcomes, cap) :
       LET ok == upload_file_ftp(o)
           tr == Append(trace, Call("upload", ok, o))
       IN /\ files' = StoredNames(files, file_name, o)
          /\ IF AfterUpload(ok) = "ret"
               THEN Step("ret", tr, PublishReturn(FALSE), Faults(o))
               ELSE Step(AfterUpload(ok), tr, "none", Faults(o))
  /\ UNCHANGED <<sitemap, local, indexed>>

\* update_sitemap, line 306
s_download(cap) ==
  /\ pc = "s_download"
  /\ \E o \in Outcomes(DownloadOutcomes, cap) :
       /\ local' = Downloaded(sitemap, local, o)
       /\ Step("s_edit", Append(trace, Call("download", download_from_cpanel(sitemap, o), o)),
               "none", Faults(o))
  /\ UNCHANGED <<files, sitemap, indexed>>

\* update_sitemap, lines 307-337: parse, edit, write the local copy
s_edit ==
  /\ pc = "s_edit"
  /\ local' = Upsert(local, public_url, now)
  /\ Step("s_upload", Append(trace, Call("upsert", TRUE, "ok")), "none", 0)
  /\ UNCHANGED <<files, sitemap, indexed>>

\* update_sitemap, line 338: the result of the upload is not looked at
s_upload(cap) ==
  /\ pc = "s_upload"
  /\ \E o \in Outcomes(UploadOutcomes, cap) :
       /\ sitemap' = Stored(sitemap, local, o)
       /\ Step("s_ping", Append(trace, Call("sitemap_upload", upload_file_ftp(o), o)),
               "none", Faults(o))
  /\ UNCHANGED <<files, local, indexed>>

\* update_sitemap, lines 339-342: a failed ping makes update_sitemap return False
s_ping(cap) ==
  /\ pc = "s_ping"
  /\ \E o \in Outcomes({"ok", "fail"}, cap) :
       Step("p_notify", Append(trace, Call("ping", o = "ok", o)), "none", Faults(o))
  /\ UNCHANGED ext

\* lines 410-411
p_notify(cap) ==
  /\ pc = "p_notify"
  /\ \E o \in NotifyOutcomes(cap) :
       /\ indexed' = Notified(indexed, public_url, "URL_UPDATED", o)
       /\ Step("ret", Append(trace, [call |-> "notify", ok |-> request_google_indexing(o),
                                     fault |-> o = "fail"]),
               PublishReturn(TRUE), NotifyFaults(o))
  /\ UNCHANGED <<files, sitemap, local>>

(* --------------------- unpublish_content_pipeline --------------------- *)
\* AfterDelete when delete_file_ftp lets its exception out to the pipeline's
\* "except Exception: return False"
AfterDelete_Raise(o) == IF o = "ok" THEN "r_download" ELSE "ret"

\* lines 422-423: delete_file_ftp returns on every path (its bare except), so
\* remove_from_sitemap is the next call whatever the outcome
AfterDelete(o) == "r_download"

\* line 422
u_delete(cap) ==
  /\ Starting("unpublish")
  /\ \E o \in Outcomes(DeleteOutcomes, cap) :
       /\ files' = Deleted(files, file_name, o)
       /\ Step(AfterDelete(o), <<Call("delete", delete_file_ftp(o), o)>>, "none", Faults(o))
  /\ UNCHANGED <<sitemap, local, indexed>>

\* remove_from_sitemap, line 348
r_download(cap) ==
  /\ pc = "r_download"
  /\ \E o \in Outcomes(DownloadOutcomes, cap) :
       /\ local' = Downloaded(sitemap, local, o)
       /\ Step("r_edit", Append(trace, Call("download", download_from_cpanel(sitemap, o), o)),
               "none", Faults(o))
  /\ UNCHANGED <<files, sitemap, indexed>>

\* remove_from_sitemap, lines 349-365: no local copy, a parse error and no
\* matching entry all end the call with False before any upload
r_edit ==
  /\ pc = "r_edit"
  /\ IF HasUrl(local, public_url)
       THEN /\ local' = Doc(Remove(local.urls, public_url))
            /\ Step("r_upload", Append(trace, Call("remove", TRUE, "ok")), "none", 0)
       ELSE /\ local' = local
            /\ Step("u_notify", Append(trace, Call("remove", FALSE, "ok")), "none", 0)
  /\ UNCHANGED <<files, sitemap, indexed>>

\* remove_from_sitemap, line 366
r_upload(cap) ==
  /\ pc = "r_upload"
  /\ \E o \in Outcomes(UploadOutcomes, cap) :
       /\ sitemap' = Stored(sitemap, local, o)
       /\ Step("u_notify", Append(trace, Call("sitemap_upload", upload_file_ftp(o), o)),
               "none", Faults(o))
  /\ UNCHANGED <<files, local, indexed>>

\* lines 424-425
u_notify(cap) ==
  /\ pc = "u_notify"
  /\ \E o \in NotifyOutcomes(cap) :
       /\ indexed' = Notified(indexed, public_url, "URL_DELETED", o)
       /\ Step("ret", Append(trace, [call |-> "notify", ok |-> request_google_indexing(o),
                                     fault |-> o = "fail"]),
               UnpublishReturn, NotifyFaults(o))
  /\ UNCHANGED <<files, sitemap, local>>

(* ---------- BackgroundTasks.__call__: the next task, in order ---------- *)
Summary == [op |-> Head(tasks).op, slug |-> slug_, ret |-> ret, clean |-> Clean(trace)]

finish ==
  /\ pc = "ret"
  /\ done' = Append(done, Summary)
  /\ tasks' = Tail(tasks)
  /\ pc' = "idle"
  /\ trace' = <<>>
  /\ ret' = "none"
  /\ UNCHANGED <<db, ext, creds, now, req, nreq, nfail, aux>>

RunStep(cap) ==
  \/ p_render(cap) \/ p_upload(cap) \/ s_download(cap) \/ s_edit
  \/ s_upload(cap) \/ s_ping(cap) \/ p_notify(cap)
  \/ u_delete(cap) \/ r_download(cap) \/ r_edit \/ r_upload(cap) \/ u_notify(cap)
  \/ finish

\* midnight UTC. Taken where the next step reads the clock (a handler, the
\* sitemap edit): a tick anywhere else shows only at the next such read.
ReadsClock == Quiescent \/ pc = "s_edit"

Tick ==
  /\ now < MaxDay
  /\ ReadsClock
  /\ now' = now + 1
  /\ UNCHANGED <<db, ext, creds, run, req, nreq, nfail, aux>>

(* ========================== specifications ============================ *)
\* a fresh deployment: no article, nothing published, no sitemap.xml yet
Init ==
  /\ db = <<>>
  /\ files = {}
  /\ sitemap = Absent
  /\ local = Absent
  /\ indexed = [u \in Urls |-> "none"]
  /\ creds \in BOOLEAN
  /\ now = 1
  /\ tasks = <<>>
  /\ pc = "idle"
  /\ trace = <<>>
  /\ ret = "none"
  /\ done = <<>>
  /\ req = NoReq
  /\ nreq = 0
  /\ nfail = 0
  /\ other = IdleCtx
  /\ ftp = NoFtp

Request ==
  \/ \E s \in Slugs, p \in PayloadStatuses, c \in CommitOutcomes :
       create_article(s, p, c)
  \/ \E i \in Ids, s \in PayloadSlugs, p \in PayloadStatuses, c \in CommitOutcomes :
       update_article(i, s, p, c)
  \/ \E i \in Ids, p \in PayloadStatuses, c \in CommitOutcomes :
       patch_status(i, p, c)
  \/ \E i \in Ids, c \in CommitOutcomes :
       delete_article(i, c)
  \/ \E k \in {"update", "patch", "delete"}, i \in Ids :
       not_found(k, i)

Next == Request \/ RunStep(MaxFailures) \/ Tick

Spec == Init /\ [][Next]_vars

(* ---- a site in use: article 1, slug "a", published on day 1 ---- *)
\* the state create_article with status Published and a clean Publish leave
LiveRow == [slug |-> "a", status |-> "Published", url |-> PublicUrl("a"),
            published_at |-> 1]
LiveSitemap == Doc(<<Entry(PublicUrl("a"), 1)>>)

InitLive ==
  /\ db = [i \in {1} |-> LiveRow]
  /\ files = {FileName("a")}
  /\ sitemap = LiveSitemap
  /\ local = LiveSitemap
  /\ indexed = [u \in Urls |-> "none"]
  /\ creds = FALSE
  /\ now = 1
  /\ tasks = <<>>
  /\ pc = "idle"
  /\ trace = <<>>
  /\ ret = "none"
  /\ done = <<>>
  /\ req = NoReq
  /\ nreq = 0
  /\ nfail = 0
  /\ other = IdleCtx
  /\ ftp = NoFtp

SpecLive == InitLive /\ [][Next]_vars

(* ---- the pipelines alone, from any state of the store, any failures ---- *)
\* sitemap.xml as the pipelines may find it: missing, broken, with the pages
\* of the site, with article entries, with an entry twice
PipeSitemaps ==
  {Absent, Unparseable,
   Doc(<<Entry(HomeUrl, NoDate)>>),
   Doc(<<Entry(HomeUrl, NoDate), Entry(PublicUrl("a"), 1)>>),
   Doc(<<Entry(PublicUrl("b"), 1), Entry(PublicUrl("a"), 1)>>),
   Doc(<<Entry(PublicUrl("a"), 1), Entry(HomeUrl, NoDate), Entry(PublicUrl("a"), NoDate)>>)}
\* generated/sitemap.xml as an earlier run may have left it
PipeLocals == {Absent, Doc(<<Entry(HomeUrl, NoDate), Entry(PublicUrl("a"), 1)>>)}
PipeTasks == {Task(op, s) : op \in {"publish", "unpublish"}, s \in Slugs}

InitPipe ==
  /\ db = <<>>
  /\ files \in SUBSET {FileName(s) : s \in Slugs}
  /\ sitemap \in PipeSitemaps
  /\ local \in PipeLocals
  /\ indexed = [u \in Urls |-> "none"]
  /\ creds \in BOOLEAN
  /\ now = 1
  /\ tasks \in {<<t>> : t \in PipeTasks} \cup {<<t, t>> : t \in PipeTasks}
  /\ pc = "idle"
  /\ trace = <<>>
  /\ ret = "none"
  /\ done = <<>>
  /\ req = NoReq
  /\ nreq = 0
  /\ nfail = 0
  /\ other = IdleCtx
  /\ ftp = NoFtp

NextPipe == RunStep(PipeFailures) \/ Tick

SpecPipe == InitPipe /\ [][NextPipe]_vars

(* ---- sequences of pipelines over a sitemap that has no URL twice ---- *)
MapSitemaps ==
  {Absent,
   Doc(<<Entry(HomeUrl, NoDate)>>),
   Doc(<<Entry(PublicUrl("a"), 1), Entry(HomeUrl, NoDate)>>),
   Doc(<<Entry(HomeUrl, NoDate), Entry(PublicUrl("b"), 1), Entry(PublicUrl("a"), NoDate)>>)}
MapTasks == {<<t>> : t \in PipeTasks} \cup {<<t, u>> : t \in PipeTasks, u \in PipeTasks}

InitMap ==
  /\ db = <<>>
  /\ files = {}
  /\ sitemap \in MapSitemaps
  /\ local \in PipeLocals
  /\ indexed = [u \in Urls |-> "none"]
  /\ creds = FALSE
  /\ now = 1
  /\ tasks \in MapTasks
  /\ pc = "idle"
  /\ trace = <<>>
  /\ ret = "none"
  /\ done = <<>>
  /\ req = NoReq
  /\ nreq = 0
  /\ nfail = 0
  /\ other = IdleCtx
  /\ ftp = NoFtp

SpecMap == InitMap /\ [][NextPipe]_vars

(* ---- two requests whose background tasks run in two worker threads ---- *)
\* The handlers are "async def" without an await: they run one at a time on
\* the event loop. Their tasks are plain functions, which Starlette runs in
\* the thread pool after the response, so the tasks of one request keep
\* running while the next request is handled and while its tasks run.
\* Switch hands the processor to the other request's context; the steps of
\* the two pipelines interleave at the calls they make.
Ctx == [tasks |-> tasks, pc |-> pc, trace |-> trace, ret |-> ret, done |-> done]

Switch ==
  /\ tasks # <<>> \/ other.tasks # <<>>
  /\ other' = Ctx
  /\ tasks' = other.tasks
  /\ pc' = other.pc
  /\ trace' = other.trace
  /\ ret' = other.ret
  /\ done' = other.done
  /\ UNCHANGED <<db, ext, creds, now, req, nreq, nfail, ftp>>

\* article 1, slug "a", created as a Draft: nothing published yet
DraftRow == [slug |-> "a", status |-> "Draft", url |-> PublicUrl("a"),
             published_at |-> NoDate]

InitRace ==
  /\ db = [i \in {1} |-> DraftRow]
  /\ files = {}
  /\ sitemap = Absent
  /\ local = Absent
  /\ indexed = [u \in Urls |-> "none"]
  /\ creds = FALSE
  /\ now = 1
  /\ tasks = <<>>
  /\ pc = "idle"
  /\ trace = <<>>
  /\ ret = "none"
  /\ done = <<>>
  /\ req = NoReq
  /\ nreq = 0
  /\ nfail = 0
  /\ other = IdleCtx
  /\ ftp = NoFtp

\* no collaborator fails in the pipelines
NextRace == Request \/ RunStep(0) \/ Switch

SpecRace == InitRace /\ [][NextRace]_vars

(* ---- one FTP operation, statement by statement (lines 209-276) ---- *)
\* Put is upload_file_ftp, Delete is delete_file_ftp, Get is
\* download_from_cpanel. ftp.bound: the local variable "ftp" holds the FTP
\* object; ftp.open: connections this operation opened that are still open;
\* ftp.made, ftp.sent: how the directory creation and the transfer went.
FtpOps == {"put", "delete", "get"}
FtpNames(op) == IF op = "get" THEN {"sitemap.xml"} ELSE {FileName(s) : s \in Slugs}
\* what the operation's except clause returns
FtpExcept(op) == IF op = "delete" THEN "true" ELSE "false"

FtpStep(f) ==
  /\ ftp' = f
  /\ UNCHANGED <<db, sitemap, indexed, creds, now, run, req, nreq, nfail, other>>

\* "ftp = None" at lines 217, 245, 262
ftp_call(op, name) ==
  /\ ftp.at \in {"idle", "returned"}
  /\ FtpStep([op |-> op, name |-> name, at |-> "connect", bound |-> FALSE,
              open |-> 0, opened |-> 0, result |-> "none",
              made |-> "none", sent |-> "none"])
  /\ UNCHANGED <<files, local>>

\* get_ftp_connection, lines 210-211: FTP() and connect()
ftp_connect ==
  /\ ftp.at = "connect"
  /\ \E ok \in BOOLEAN :
       IF ok
         THEN FtpStep([ftp EXCEPT !.at = "login", !.open = 1, !.opened = @ + 1])
         ELSE FtpStep([ftp EXCEPT !.at = "finally", !.result = FtpExcept(ftp.op)])
  /\ UNCHANGED <<files, local>>

\* get_ftp_connection, lines 212-213: login() and the return that binds the
\* caller's "ftp"; when login raises, the caller's "ftp" stays None
ftp_login ==
  /\ ftp.at = "login"
  /\ \E ok \in BOOLEAN :
       IF ok
         THEN FtpStep([ftp EXCEPT !.at = "cwd", !.bound = TRUE])
         ELSE FtpStep([ftp EXCEPT !.at = "finally", !.result = FtpExcept(ftp.op)])
  /\ UNCHANGED <<files, local>>

\* ftp.cwd(remote_dir), lines 221, 248, 265; only Put handles error_perm
ftp_cwd ==
  /\ ftp.at = "cwd"
  /\ \E o \in {"ok", "error_perm", "error"} :
       IF o = "ok"
         THEN FtpStep([ftp EXCEPT !.at = "transfer"])
       ELSE IF o = "error_perm" /\ ftp.op = "put"
         THEN FtpStep([ftp EXCEPT !.at = "mkd"])
       ELSE FtpStep([ftp EXCEPT !.at = "finally", !.result = FtpExcept(ftp.op)])
  /\ UNCHANGED <<files, local>>

\* lines 223-227: mkd and cwd, "except: return False"
ftp_mkd ==
  /\ ftp.at = "mkd"
  /\ \E ok \in BOOLEAN :
       IF ok
         THEN FtpStep([ftp EXCEPT !.at = "transfer", !.made = "ok"])
         ELSE FtpStep([ftp EXCEPT !.at = "finally", !.made = "fail",
                         !.result = "false"])
  /\ UNCHANGED <<files, local>>

\* STOR (229-232), DELE (249-250), RETR (266-268)
ftp_transfer ==
  /\ ftp.at = "transfer"
  /\ \/ /\ ftp.op = "put"
        /\ \E o \in {"ok", "stor_fail", "stor_cut"} :
             /\ files' = StoredNames(files, ftp.name, o)
             /\ FtpStep([ftp EXCEPT !.at = "finally",
                           !.sent = IF o = "ok" THEN "ok" ELSE "fail",
                           !.result = IF upload_file_ftp(o) THEN "true" ELSE "false"])
        /\ UNCHANGED local
     \/ /\ ftp.op = "delete"
        /\ \E o \in {"ok", "conn_fail"} :
             /\ files' = Deleted(files, ftp.name, o)
             /\ FtpStep([ftp EXCEPT !.at = "finally",
                           !.sent = IF o = "ok" THEN "ok" ELSE "fail",
                           !.result = IF delete_file_ftp(o) THEN "true" ELSE "false"])
        /\ UNCHANGED local
     \/ /\ ftp.op = "get"
        /\ \E o \in {"ok", "retr_fail"} :
             /\ local' = Downloaded(sitemap, local, o)
             /\ FtpStep([ftp EXCEPT !.at = "finally",
                           !.sent = IF o = "ok" THEN "ok" ELSE "fail",
                           !.result = IF download_from_cpanel(sitemap, o)
                                        THEN "true" ELSE "false"])
        /\ UNCHANGED files

\* the finally clause: "if ftp: try: ftp.quit() except: pass". FTP.quit
\* sends QUIT and closes the socket after the reply; when QUIT raises, the
\* socket is not closed
ftp_finally ==
  /\ ftp.at = "finally"
  /\ IF ftp.bound
       THEN \E quit_ok \in BOOLEAN :
              FtpStep([ftp EXCEPT !.at = "return",
                         !.open = IF quit_ok THEN 0 ELSE @])
       ELSE FtpStep([ftp EXCEPT !.at = "return"])
  /\ UNCHANGED <<files, local>>

\* the function returns and its FTP object is unreferenced: an interpreter
\* that counts references closes a socket still open at once, another
\* collector at some later time
ftp_return ==
  /\ ftp.at = "return"
  /\ \E collected \in BOOLEAN :
       FtpStep([ftp EXCEPT !.at = "returned",
                  !.open = IF collected THEN 0 ELSE @])
  /\ UNCHANGED <<files, local>>

InitFtp ==
  /\ db = <<>>
  /\ files \in SUBSET {FileName(s) : s \in Slugs}
  /\ sitemap \in {Absent, LiveSitemap}
  /\ local = Absent
  /\ indexed = [u \in Urls |-> "none"]
  /\ creds = FALSE
  /\ now = 1
  /\ tasks = <<>>
  /\ pc = "idle"
  /\ trace = <<>>
  /\ ret = "none"
  /\ done = <<>>
  /\ req = NoReq
  /\ nreq = 0
  /\ nfail = 0
  /\ other = IdleCtx
  /\ ftp = NoFtp

NextFtp ==
  \/ \E op \in FtpOps : \E name \in FtpNames(op) : ftp_call(op, name)
  \/ ftp_connect \/ ftp_login \/ ftp_cwd \/ ftp_mkd \/ ftp_transfer
  \/ ftp_finally \/ ftp_return

SpecFtp == InitFtp /\ [][NextFtp]_vars

(* ============================== claims ================================ *)
IsPublished(s) == \E i \in DOMAIN db : db[i].slug = s /\ db[i].status = "Published"
HasFile(s) == FileName(s) \in files
HasEntry(s) == HasUrl(sitemap, PublicUrl(s))

\* the tasks the last request handed to add_task: those that returned, then
\* those still queued
Scheduled == [i \in 1..Len(done) |-> Task(done[i].op, done[i].slug)] \o tasks

Answered(kinds) == req.kind \in kinds /\ req.code = 200
Transition(old, new) == req.old_status = old /\ req.new_status = new
SlugChange ==
  /\ Answered({"update"})
  /\ Transition("Published", "Published")
  /\ req.old_slug # req.new_slug
Returned(op) == pc = "ret" /\ Running(op)
\* no failed transfer to or from the remote store among the calls of tr
TransferClean(tr) ==
  \A i \in 1..Len(tr) :
    tr[i].call \in {"upload", "delete", "download", "sitemap_upload"} => ~tr[i].fault

(* C1: in every quiescent state reached by requests handled one at a time   *)
(* with no collaborator failure, for every slug s the remote store holds    *)
(* s.html and the sitemap holds the entry of s's canonical URL if and only  *)
(* if an article with current slug s is Published (shown for the file and   *)
(* for the entry each on its own, which implies it for the pair).           *)
C1_ArtifactsIffPublished ==
  (Quiescent /\ nfail = 0) =>
    \A s \in Slugs :
      /\ HasFile(s) <=> IsPublished(s)
      /\ HasEntry(s) <=> IsPublished(s)

C1_Witness ==
  /\ Quiescent /\ nfail = 0
  /\ SlugChange
  /\ Len(done) = 2
  /\ HasFile(req.new_slug) /\ HasEntry(req.new_slug)
  /\ ~HasFile(req.old_slug)

(* C2: an update or patch schedules exactly the operations of the          *)
(* transition table: Draft to Published one Publish of the new row;         *)
(* Published to Draft one Unpublish of the old slug and no Publish, also    *)
(* when the slug changes; Published to Published with the same slug one     *)
(* Publish and no Unpublish.                                                *)
C2_TransitionTable ==
  Answered({"update", "patch"}) =>
    /\ Transition("Draft", "Published") =>
         Scheduled = <<Task("publish", req.new_slug)>>
    /\ Transition("Published", "Draft") =>
         Scheduled = <<Task("unpublish", req.old_slug)>>
    /\ (Transition("Published", "Published") /\ req.old_slug = req.new_slug) =>
         Scheduled = <<Task("publish", req.new_slug)>>

C2_Witness ==
  /\ Answered({"update"})
  /\ Transition("Published", "Draft")
  /\ req.old_slug # req.new_slug
  /\ tasks = <<Task("unpublish", req.old_slug)>>

(* C3: when an update keeps the status Published and changes the slug from *)
(* A to B, Unpublish(A) has returned before Publish(B) starts, and once     *)
(* both have returned without a collaborator failure there is no A.html and *)
(* no sitemap entry for A, while B.html and the entry for B exist.          *)
C3_SlugChangeOrder ==
  SlugChange =>
    /\ Scheduled = <<Task("unpublish", req.old_slug), Task("publish", req.new_slug)>>
    /\ (pc # "idle" /\ Running("publish")) =>
         /\ Len(done) = 1
         /\ done[1].op = "unpublish" /\ done[1].slug = req.old_slug
    /\ (Quiescent /\ \A i \in 1..Len(done) : done[i].clean) =>
         /\ ~HasFile(req.old_slug) /\ ~HasEntry(req.old_slug)
         /\ HasFile(req.new_slug) /\ HasEntry(req.new_slug)

C3_Witness ==
  /\ SlugChange
  /\ Quiescent
  /\ Len(done) = 2
  /\ done[1].clean /\ done[2].clean
  /\ nfail = 1

DraftToDraftStep ==
  /\ nreq' = nreq + 1
  /\ req'.kind \in {"update", "patch"}
  /\ req'.old_status = "Draft" /\ req'.new_status = "Draft"

(* C4: an update or patch from Draft to Draft schedules nothing and leaves *)
(* the remote store, the sitemap and what the indexing API was told         *)
(* unchanged, whether or not slug or content changed.                       *)
C4_DraftToDraftNoEffect ==
  [][DraftToDraftStep =>
       /\ tasks' = <<>> /\ pc' = "idle"
       /\ UNCHANGED <<files, sitemap, indexed>>]_vars

C4_Witness ==
  /\ Answered({"update"})
  /\ Transition("Draft", "Draft")
  /\ req.old_slug # req.new_slug
  /\ Quiescent

DeleteStep(id) ==
  /\ Quiescent
  /\ id \in DOMAIN db
  /\ req'.kind = "delete" /\ req'.id = id
  /\ (nreq' = nreq + 1 \/ nfail' = nfail + 1)

(* C5: a delete schedules Unpublish of the slug the row had if and only if *)
(* the row was Published, and only once the row's removal is committed; a   *)
(* delete of a Draft schedules nothing and leaves store and sitemap alone.  *)
C5_DeleteSchedulesUnpublish ==
  [][\A id \in Ids :
       DeleteStep(id) =>
         /\ UNCHANGED <<files, sitemap, indexed>>
         /\ IF id \notin DOMAIN db'
              THEN tasks' = IF db[id].status = "Published"
                              THEN <<Task("unpublish", db[id].slug)>> ELSE <<>>
              ELSE tasks' = <<>>]_vars

C5_Witness ==
  /\ Answered({"delete"})
  /\ req.old_status = "Published"
  /\ req.id \notin DOMAIN db
  /\ tasks = <<Task("unpublish", req.old_slug)>>

(* C6: in every execution of Publish the sitemap upsert and the Updated    *)
(* notification are attempted if and only if the upload of {slug}.html      *)
(* succeeded, and both only after the upload has finished.                  *)
C6_UpsertNotifyIffUploaded ==
  (pc # "idle" /\ Running("publish")) =>
    /\ \A c \in {"download", "upsert", "sitemap_upload", "ping", "notify"} :
         Called(trace, c) =>
           /\ CallOk(trace, "upload")
           /\ Pos(trace, "upload") < Pos(trace, c)
    /\ pc = "ret" =>
         /\ CallOk(trace, "upload") <=> Called(trace, "download")
         /\ CallOk(trace, "upload") <=> Called(trace, "notify")

C6_Witness ==
  /\ Returned("publish")
  /\ CallOk(trace, "upload")
  /\ Called(trace, "download") /\ Called(trace, "notify")
  /\ ~Clean(trace)

(* C7: Publish and Unpublish never raise, whatever fails: each invocation  *)
(* ends with a boolean, and Publish returns true exactly when render and    *)
(* upload both succeeded, whether or not the sitemap upsert or the          *)
(* notification failed.                                                     *)
C7_BooleanResult ==
  /\ \A i \in 1..Len(done) : done[i].ret \in {"true", "false"}
  /\ pc = "ret" =>
       /\ ret \in {"true", "false"}
       /\ Running("publish") =>
            (ret = "true" <=> CallOk(trace, "render") /\ CallOk(trace, "upload"))

C7_Witness ==
  /\ Returned("publish")
  /\ ret = "true"
  /\ \E i \in 1..Len(trace) : trace[i].call = "sitemap_upload" /\ trace[i].fault
  /\ \E i \in 1..Len(trace) : trace[i].call = "notify" /\ trace[i].fault

DraftToPublished ==
  Answered({"update", "patch"}) /\ Transition("Draft", "Published")

(* C8 as stated: for every Draft to Published transition, whenever Publish  *)
(* returns success the remote store contains {slug}.html and the sitemap    *)
(* contains the entry of the slug's canonical URL.                          *)
C8_Original ==
  (DraftToPublished /\ Returned("publish") /\ ret = "true") =>
    HasFile(slug_) /\ HasEntry(slug_)

(* C8, amended: for every Draft to Published transition, whenever Publish   *)
(* returns success the remote store contains {slug}.html, and the sitemap   *)
(* contains the entry of the slug's canonical URL when the upsert's upload  *)
(* of sitemap.xml went through.                                             *)
C8_PublishedArtifacts ==
  (DraftToPublished /\ Returned("publish") /\ ret = "true") =>
    /\ HasFile(slug_)
    /\ CallOk(trace, "sitemap_upload") => HasEntry(slug_)

C8_Witness ==
  /\ DraftToPublished /\ Returned("publish") /\ ret = "true"
  /\ CallOk(trace, "sitemap_upload")
  /\ HasFile(slug_) /\ HasEntry(slug_)

PublishedToDraft ==
  Answered({"update", "patch"}) /\ Transition("Published", "Draft")

(* C9 as stated: for every Published to Draft transition, once             *)
(* Unpublish(oldSlug) has completed the remote store has no {oldSlug}.html  *)
(* and the sitemap no entry for the old canonical URL.                      *)
C9_Original ==
  (PublishedToDraft /\ Returned("unpublish")) =>
    ~HasFile(req.old_slug) /\ ~HasEntry(req.old_slug)

(* C9, amended: for every Published to Draft transition, once              *)
(* Unpublish(oldSlug) has completed with no failed transfer (delete,        *)
(* sitemap download, sitemap upload) the remote store has no {oldSlug}.html *)
(* and the sitemap no entry for the old canonical URL.                      *)
C9_UnpublishedArtifacts ==
  (PublishedToDraft /\ Returned("unpublish") /\ TransferClean(trace)) =>
    /\ slug_ = req.old_slug
    /\ ~HasFile(req.old_slug) /\ ~HasEntry(req.old_slug)

C9_Witness ==
  /\ PublishedToDraft /\ Returned("unpublish") /\ TransferClean(trace)
  /\ CallOk(trace, "remove") /\ CallOk(trace, "sitemap_upload")

SecondUnpublish ==
  /\ Len(done) = 1 /\ Len(tasks) = 1
  /\ done[1].op = "unpublish" /\ Running("unpublish")
  /\ done[1].slug = slug_

(* C10 as stated: from every state of the remote store and the sitemap, a  *)
(* second Unpublish(slug) right after a first reports no error and leaves   *)
(* the store and the sitemap as the first call left them.                   *)
C10_Original ==
  [][SecondUnpublish =>
       /\ files' = files /\ sitemap' = sitemap
       /\ ret' \in {"none", "true"}]_vars

(* C10, amended: a second Unpublish(slug) right after a first reports no   *)
(* error in every case, and leaves the store and the sitemap as the first   *)
(* call left them when the first call met no collaborator failure.          *)
C10_UnpublishIdempotent ==
  [][SecondUnpublish =>
       /\ ret' \in {"none", "true"}
       /\ done[1].clean => (files' = files /\ sitemap' = sitemap)]_vars

C10_Witness ==
  /\ Len(done) = 2
  /\ done[1].op = "unpublish" /\ done[2].op = "unpublish"
  /\ done[1].clean /\ ~done[2].clean
  /\ done[2].ret = "true"

(* C11: in every execution of Unpublish the three steps are attempted, in   *)
(* the order delete remote file, remove sitemap entry, send Deleted         *)
(* notification, whatever the outcome of the earlier steps: a failed        *)
(* deletion does not prevent the sitemap removal, and a failure of either   *)
(* does not prevent the notification.                                       *)
C11_UnpublishAttemptsAll ==
  Returned("unpublish") =>
    /\ Len(trace) \in {4, 5}
    /\ trace[1].call = "delete"
    /\ trace[2].call = "download" /\ trace[3].call = "remove"
    /\ Len(trace) = 5 <=> trace[3].ok
    /\ Len(trace) = 5 => trace[4].call = "sitemap_upload"
    /\ trace[Len(trace)].call = "notify"
    /\ (creds /\ trace[Len(trace)].ok) => indexed[public_url] = "URL_DELETED"

C11_Witness ==
  /\ Returned("unpublish")
  /\ trace[1].call = "delete" /\ trace[1].fault
  /\ trace[2].call = "download" /\ trace[2].fault
  /\ CallOk(trace, "notify")

Entries(f) == IF IsDoc(f) THEN f.urls ELSE <<>>
Count(es, u) == Cardinality({i \in 1..Len(es) : es[i].loc = u})
NoDup(f) == \A u \in Urls : Count(Entries(f), u) <= 1
UpsertStep == pc = "s_edit" /\ pc' = "s_upload"
RemoveStep == pc = "r_edit" /\ pc' \in {"r_upload", "u_notify"}

(* C12: the sitemap is a set keyed by exact URL. Starting from a document   *)
(* without duplicate URLs, after any sequence of Upsert and Remove the      *)
(* remote document and the working copy hold at most one entry per URL;     *)
(* Upsert of a URL already present changes nothing but that entry's         *)
(* last-modified date and adds no entry, Upsert of an absent URL adds       *)
(* exactly one entry (at the end), and Remove(url) leaves no entry with     *)
(* that URL and every other entry as it was.                                *)
C12_SitemapIsSet ==
  [][LET es == Entries(local)
         es2 == Entries(local')
         u == public_url
     IN /\ NoDup(sitemap') /\ NoDup(local')
        /\ UpsertStep =>
             IF Count(es, u) > 0
               THEN /\ Len(es2) = Len(es)
                    /\ \A i \in 1..Len(es) :
                         /\ es2[i].loc = es[i].loc
                         /\ es[i].loc # u => es2[i] = es[i]
                         /\ es[i].loc = u =>
                              es2[i].lastmod = IF es[i].lastmod = NoDate THEN NoDate ELSE now
               ELSE /\ Len(es2) = Len(es) + 1
                    /\ SubSeq(es2, 1, Len(es)) = es
                    /\ es2[Len(es2)] = Entry(u, now)
        /\ RemoveStep =>
             /\ Count(es2, u) = 0
             /\ Len(es2) = Len(es) - Count(es, u)
             /\ \A i \in 1..Len(es) :
                  es[i].loc # u => \E j \in 1..Len(es2) : es2[j] = es[i]]_vars

C12_Witness ==
  /\ pc = "s_upload" /\ Len(done) = 1 /\ nfail = 0
  /\ IsDoc(local) /\ Len(local.urls) = 3
  /\ local.urls[1] = Entry(public_url, 2)
  /\ local.urls[3].loc = PublicUrl(done[1].slug)

(* C13 as stated: when an article is created with status Published and the  *)
(* Publish render or upload fails, the create request is answered with an   *)
(* HTTP error; for update, patch and delete a failure in the pipeline never  *)
(* shows in the response.                                                   *)
C13_Original ==
  /\ (req.kind = "create" /\ req.new_status = "Published"
        /\ Returned("publish") /\ ret = "false") => req.code >= 400
  /\ (req.kind \in {"update", "patch", "delete"} /\ pc = "ret" /\ ~Clean(trace)) =>
       req.code = 200

\* a step that commits a create, update or patch of row id
Commits(id) == nreq' = nreq + 1 /\ req'.id = id /\ id \in DOMAIN db'

(* C14: published_at is null for an article that has never had status       *)
(* Published, is set (to the time of the commit) at the first commit in     *)
(* which its status is Published, by create, update or patch, and once      *)
(* non-null never changes and is never cleared by a later update or patch,  *)
(* including a Published to Draft to Published round trip.                  *)
C14_PublishedAtSetOnce ==
  [][\A id \in Ids :
       /\ (id \in DOMAIN db /\ id \in DOMAIN db' /\ db[id].published_at # NoDate) =>
            db'[id].published_at = db[id].published_at
       /\ (id \in DOMAIN db' /\ (id \in DOMAIN db => db[id].published_at = NoDate)) =>
            db'[id].published_at =
              IF Commits(id) /\ db'[id].status = "Published" THEN now ELSE NoDate
       /\ (id \in DOMAIN db' /\ db'[id].status = "Published") =>
            db'[id].published_at # NoDate]_vars

C14_Witness ==
  /\ Answered({"patch"}) /\ Transition("Draft", "Published")
  /\ nreq = 2
  /\ now = 2
  /\ db[req.id].published_at = 1

UniqueSlugs(t) == \A i, j \in DOMAIN t : i # j => t[i].slug # t[j].slug
\* a step of a handler: the runner is idle and the clock does not move
HandlerStep == Quiescent /\ now' = now
Rejected ==
  /\ req'.code = 400
  /\ tasks' = <<>>
  /\ UNCHANGED <<db, files, sitemap, local, indexed>>

(* C15: in every reachable database state no two articles share a slug: a   *)
(* create whose slug is held by a row, and an update whose new slug is held *)
(* by a different row, are rejected with an error and leave the database    *)
(* and all external artifacts unchanged; an update that keeps the article's *)
(* own slug is not rejected.                                                *)
C15_SlugUnique ==
  [][/\ UniqueSlugs(db')
     /\ HandlerStep =>
          LET held == \E i \in DOMAIN db : db[i].slug = req'.new_slug
          IN /\ (req'.kind = "create" /\ held) => Rejected
             /\ (req'.kind = "update" /\ req'.new_slug # req'.old_slug /\ held) => Rejected
             /\ (req'.kind = "update" /\ req'.new_slug = req'.old_slug) =>
                  req'.code # 400]_vars

C15_Witness ==
  /\ req.kind = "update" /\ req.code = 400
  /\ Cardinality(DOMAIN db) = 2
  /\ files # {}

(* C16: in every reachable database state each article's stored url equals  *)
(* the canonical URL built from the site base URL, the configured           *)
(* subdirectory and the article's current slug; create and update keep it   *)
(* so when they set the slug, and patch changes neither slug nor url.       *)
C16_UrlCanonical ==
  [][/\ \A id \in DOMAIN db' :
          db'[id].url = SITE_URL \o "/" \o ARTICLES_URL_SUBDIR \o "/" \o db'[id].slug
     /\ (HandlerStep /\ req'.kind = "patch" /\ req'.id \in DOMAIN db) =>
          /\ req'.id \in DOMAIN db'
          /\ db'[req'.id].slug = db[req'.id].slug
          /\ db'[req'.id].url = db[req'.id].url]_vars

C16_Witness ==
  /\ Answered({"update"})
  /\ req.old_slug # req.new_slug
  /\ req.id \in DOMAIN db
  /\ db[req.id].slug = req.new_slug
  /\ db[req.id].url = PublicUrl(req.new_slug)

\* both requests' tasks have returned
AllQuiet == Quiescent /\ other.tasks = <<>> /\ other.pc = "idle"
\* each of the two contexts ran one pipeline to its end
RanOneEach == Len(done) = 1 /\ Len(other.done) = 1

(* C17 as stated: for two synchronizer invocations that run concurrently    *)
(* for two different articles with different slugs, every interleaving of   *)
(* their steps ends with the remote store and sitemap that running them one *)
(* after the other gives; neither invocation's sitemap entry is lost. (Two  *)
(* commits that leave two Published rows are a publication of each of two   *)
(* articles; run one after the other they leave both files and both         *)
(* entries.)                                                                *)
C17_Original ==
  (/\ AllQuiet /\ nfail = 0 /\ nreq = 2
   /\ DOMAIN db = {1, 2}
   /\ \A i \in DOMAIN db : db[i].status = "Published") =>
    \A i \in DOMAIN db : HasFile(db[i].slug) /\ HasEntry(db[i].slug)

\* a step of a pipeline
PipelineStep == tasks # <<>> /\ tasks' = tasks /\ pc' # pc /\ other' = other

(* C18: two concurrent status mutations of the same article are not         *)
(* serialized. No step of a pipeline looks at or changes the database row,  *)
(* and each write to the remote store takes effect when it is made: an      *)
(* upload leaves {slug}.html there, a delete leaves it gone, a sitemap      *)
(* upload overwrites sitemap.xml with the working copy. So the artifacts    *)
(* reflect the writes that landed last, whatever status was committed last  *)
(* (the witness: status Draft committed last while a.html and its sitemap   *)
(* entry exist, both pipelines finished, no collaborator failure).          *)
C18_LastWriteWins ==
  [][PipelineStep =>
       /\ db' = db
       /\ pc = "p_upload" => HasFile(slug_)'
       /\ (pc = "idle" /\ Running("unpublish")) => ~HasFile(slug_)'
       /\ pc \in {"s_upload", "r_upload"} => sitemap' = local]_vars

C18_Witness ==
  /\ AllQuiet /\ nfail = 0 /\ RanOneEach
  /\ {done[1].op, other.done[1].op} = {"publish", "unpublish"}
  /\ done[1].slug = "a" /\ other.done[1].slug = "a"
  /\ Answered({"patch"}) /\ Transition("Published", "Draft")
  /\ db[1].slug = "a" /\ db[1].status = "Draft"
  /\ HasFile("a") /\ HasEntry("a")

(* C19: Notify never propagates a failure: a network or credential error    *)
(* ends as a false result of the call and does not change the boolean that  *)
(* Publish or Unpublish returns; when the notifier credentials are not      *)
(* configured nothing is sent to the indexing service, and the pipeline     *)
(* makes the same calls and returns the same result.                        *)
C19_NotifyNeverPropagates ==
  /\ ~creds => \A u \in Urls : indexed[u] = "none"
  /\ \A i \in 1..Len(done) : done[i].ret # "raised"
  /\ (pc = "ret" /\ Running("publish")) =>
       (Called(trace, "notify") <=> CallOk(trace, "upload"))
  /\ (pc = "ret" /\ Called(trace, "notify")) =>
       LET n == trace[Len(trace)]
       IN /\ n.call = "notify"
          /\ ret = "true"
          /\ n.fault => ~n.ok
          /\ ~creds => ~n.ok /\ ~n.fault

C19_Witness ==
  /\ Returned("unpublish") /\ ret = "true"
  /\ trace[Len(trace)].call = "notify" /\ trace[Len(trace)].fault
  /\ indexed[public_url] = "none"

(* C20 as stated: every remote-store operation (Put, Delete, Get) opens at  *)
(* most one connection, and when the operation returns, on every exit path  *)
(* (success, directory-creation failure, transfer failure, and a login      *)
(* failure after the connection was established), no connection opened by  *)
(* that operation is left open.                                             *)
C20_Original ==
  ftp.at = "returned" => ftp.opened <= 1 /\ ftp.open = 0

\* the download that opened the sitemap operation now at its edit
Fetch == trace[Len(trace)]

(* C21 as stated: every sitemap Upsert and Remove edits the document that   *)
(* was fetched from the remote store within that same operation, or an      *)
(* empty document when the fetch finds none; content left in the local      *)
(* working copy by an earlier operation is never the base of an edit and    *)
(* never uploaded, also when the fetch fails.                               *)
C21_Original ==
  /\ pc \in {"s_edit", "r_edit"} =>
       /\ Fetch.call = "download"
       /\ IF Fetch.ok THEN local = sitemap ELSE ~IsDoc(local)
  /\ pc \in {"s_upload", "r_upload"} =>
       \A i \in 1..Len(local.urls) :
         local.urls[i].loc = public_url \/ HasUrl(sitemap, local.urls[i].loc)

(* C22 as stated: after every sitemap mutation that changed the document,   *)
(* by Upsert and by Remove alike, the document is re-uploaded to the remote *)
(* store and then the search engine is pinged with the sitemap's address.   *)
(* (Stated at the call that follows the sitemap operation in its pipeline.) *)
C22_Original ==
  /\ pc = "p_notify" =>
       /\ Called(trace, "sitemap_upload") /\ Called(trace, "ping")
       /\ Pos(trace, "sitemap_upload") < Pos(trace, "ping")
  /\ (pc = "u_notify" /\ CallOk(trace, "remove")) =>
       /\ Called(trace, "sitemap_upload") /\ Called(trace, "ping")
       /\ Pos(trace, "sitemap_upload") < Pos(trace, "ping")

PutReturned == ftp.op = "put" /\ ftp.at = "returned"

(* C23 as stated: Put ensures the remote directory exists (creating it      *)
(* when entering it fails) and then writes the file; Put reports failure    *)
(* only in executions where the directory creation and the write both       *)
(* failed.                                                                  *)
C23_Original ==
  (PutReturned /\ ftp.result = "false") => ftp.made = "fail" /\ ftp.sent = "fail"

(* C23, amended: Put enters the remote directory, creating it when entering *)
(* it is refused, and then writes the file; it reports success exactly when *)
(* the write went through, and failure when the connection, the directory   *)
(* (entering it, or creating it) or the write failed: a failed directory    *)
(* creation alone is reported as failure, with no write attempted.          *)
C23_PutResult ==
  PutReturned =>
    /\ ftp.result \in {"true", "false"}
    /\ ftp.result = "true" <=> ftp.sent = "ok"
    /\ ftp.sent = "ok" => ftp.name \in files
    /\ ftp.made = "fail" => ftp.sent = "none" /\ ftp.result = "false"
    /\ ftp.sent # "none" => ftp.bound /\ ftp.made # "fail"

C23_Witness ==
  /\ PutReturned
  /\ ftp.made = "ok" /\ ftp.sent = "ok" /\ ftp.result = "true"
  /\ ftp.open = 0

\* the step that renders the article, and a render that raised
RenderStep == Starting("publish") /\ pc' # pc
RenderFailed(tr) == Len(tr) >= 1 /\ tr[1].call = "render" /\ ~tr[1].ok

(* C24: when rendering fails inside Publish, the invocation makes no        *)
(* remote-store, sitemap or notifier call at all, leaves the remote store   *)
(* and the sitemap unchanged, and returns failure.                          *)
C24_RenderFailureStops ==
  [][/\ (RenderStep /\ RenderFailed(trace')) =>
          /\ pc' = "ret" /\ ret' = "false"
          /\ UNCHANGED <<files, sitemap, local, indexed>>
     /\ (Running("publish") /\ RenderFailed(trace)) =>
          /\ Len(trace) = 1 /\ pc = "ret"
          /\ UNCHANGED <<files, sitemap, local, indexed>>]_vars

C24_Witness ==
  /\ Returned("publish")
  /\ trace = <<Call("render", FALSE, "raise")>>
  /\ ret = "false"
  /\ ~HasUrl(sitemap, public_url)
  /\ file_name \notin files

\* the row the answered request committed is the one the database holds
RowCommitted(d, r) ==
  IF r.kind = "delete"
    THEN r.id \notin DOMAIN d
    ELSE /\ r.id \in DOMAIN d
         /\ d[r.id].status = r.new_status
         /\ d[r.id].slug = r.new_slug

(* C25: every Publish and Unpublish invocation starts only after the        *)
(* database commit of the mutation that triggered it, and no outcome of the *)
(* invocation rolls back or alters the committed row; after a failed        *)
(* Publish the row keeps status Published and the committed edit.           *)
C25_PipelineAfterCommit ==
  [][/\ (tasks = <<>> /\ tasks' # <<>>) =>
          /\ req'.code = 200
          /\ RowCommitted(db', req')
          /\ \A i \in 1..Len(tasks') :
               tasks'[i].op = "publish" =>
                 /\ db'[req'.id].status = "Published"
                 /\ db'[req'.id].slug = tasks'[i].slug
     /\ tasks # <<>> => db' = db /\ req' = req /\ RowCommitted(db, req)
     /\ (Returned("publish") /\ ret = "false") =>
          /\ db[req.id].status = "Published"
          /\ db[req.id].slug = slug_]_vars

C25_Witness ==
  /\ Returned("publish") /\ ret = "false"
  /\ req.kind = "update" /\ req.code = 200
  /\ req.new_slug # req.old_slug
  /\ db[req.id].status = "Published"
  /\ db[req.id].slug = req.new_slug

\* a create, update or patch that was not refused for its slug or its id and
\* whose commit did not fail
Handled(k) ==
  /\ HandlerStep
  /\ req'.kind = k
  /\ req'.code \notin {400, 404}
  /\ nfail' = nfail

(* C26 as stated: the persisted status of every article is always exactly   *)
(* Draft or Published: create, update and patch store Published only when   *)
(* the payload's status equals 'published' ignoring case, and store Draft   *)
(* for every other payload, including one that has no status field; so an   *)
(* update or patch of a Published article that omits status commits Draft   *)
(* and schedules Unpublish of its old slug.                                 *)
C26_Original ==
  [][/\ \A i \in DOMAIN db' : db'[i].status \in {"Draft", "Published"}
     /\ \A k \in {"create", "update", "patch"} :
          Handled(k) =>
            /\ req'.code = 200
            /\ req'.new_status \in {"Draft", "Published"}
            /\ req'.id \in DOMAIN db'
            /\ db'[req'.id].status = req'.new_status
            /\ (req'.old_status = "Published" /\ req'.new_status = "Draft") =>
                 tasks' = <<Task("unpublish", req'.old_slug)>>]_vars

====
